---- MODULE Spec2Model ----
(***************************************************************************)
(* Model of utils/tree/load_parameters.py (HazyResearch/hypgcn): the       *)
(* pairwise log-likelihood matrix, the maximum spanning tree extracted     *)
(* from it and the unweighted adjacency matrix materialised from the tree. *)
(***************************************************************************)
EXTENDS Integers, Sequences, FiniteSets, TLC

\* ------------------------------------------------------------------ bounds
MaxN == 4
MaxWeight == 2
MaxLen == 2
MaxSeqs == 3
MaxLeaves == 3

\* -np.inf: the sentinel of get_mst, below every finite weight of the model
NegInf == -1

FiniteWeights == 1..MaxWeight
Weights == {NegInf} \cup FiniteWeights

Min(a, b) == IF a < b THEN a ELSE b
Max(a, b) == IF a < b THEN b ELSE a

\* unordered pairs {i,j}, i < j, of 0..n-1, written <<i, j>>
Pairs(n) == {p \in (0..(n-1)) \X (0..(n-1)) : p[1] < p[2]}

Key(u, v) == <<Min(u, v), Max(u, v)>>

InSeq(x, s) == \E k \in 1..Len(s) : s[k] = x

\* TLC evaluates the arguments of an operator on demand; a loop tests
\* Strict(acc) to have its accumulator evaluated at each iteration
Strict(x) == x = x

\* --------------------------------------------------------------- nx.Graph
\* nodes: insertion order; adj[n]: neighbours of n in insertion order;
\* w: weight attribute of each edge, keyed by the unordered pair
EmptyGraph == [nodes |-> <<>>, adj |-> <<>>, w |-> <<>>]

AddNode(g, u) ==
    IF InSeq(u, g.nodes) THEN g
    ELSE [g EXCEPT !.nodes = Append(@, u), !.adj = (u :> <<>>) @@ @]

AddNbr(g, u, v) ==
    IF InSeq(v, g.adj[u]) THEN g ELSE [g EXCEPT !.adj[u] = Append(@, v)]

\* G.add_edge(u, v, weight=x): adds missing nodes, and overwrites the weight
\* of an edge that is already there
add_edge(g, u, v, x) ==
    LET g1 == AddNode(AddNode(g, u), v)
        g2 == AddNbr(AddNbr(g1, u, v), v, u)
    IN  [g2 EXCEPT !.w = (Key(u, v) :> x) @@ @]

HasEdge(g, u, v) == Key(u, v) \in DOMAIN g.w

\* the double loop of get_mst over range(n) x range(n), row-major, from
\* iteration k = i * n + j on
RECURSIVE BuildGraph(_, _, _, _)
BuildGraph(M, n, k, g) ==
    IF k >= n * n THEN g
    ELSE LET i == k \div n
             j == k % n
             g2 == IF M[i][j] = NegInf THEN g ELSE add_edge(g, i, j, M[i][j])
         IN  IF Strict(g2) THEN BuildGraph(M, n, k + 1, g2) ELSE g

\* G.edges: for each node n in order, each neighbour not yet visited as n
RECURSIVE EdgesFrom(_, _)
EdgesFrom(g, k) ==
    IF k > Len(g.nodes) THEN <<>>
    ELSE LET n == g.nodes[k]
             seen == {g.nodes[m] : m \in 1..(k - 1)}
             nb == SelectSeq(g.adj[n], LAMBDA x : x \notin seen)
         IN  [m \in 1..Len(nb) |-> <<n, nb[m]>>] \o EdgesFrom(g, k + 1)

GraphEdges(g) == EdgesFrom(g, 1)

EdgeWeight(g, e) == g.w[Key(e[1], e[2])]

\* sorted(edges, key = -weight): stable, heaviest first
RECURSIVE SortDescending(_, _)
SortDescending(g, es) ==
    IF es = <<>> THEN <<>>
    ELSE LET top == CHOOSE x \in {EdgeWeight(g, es[k]) : k \in 1..Len(es)} :
                        \A k \in 1..Len(es) : EdgeWeight(g, es[k]) <= x
         IN  SelectSeq(es, LAMBDA e : EdgeWeight(g, e) = top)
                 \o SortDescending(g, SelectSeq(es, LAMBDA e : EdgeWeight(g, e) # top))

SortAscending(g, es) ==
    LET s == SortDescending(g, es)
    IN  [k \in 1..Len(s) |-> s[Len(s) + 1 - k]]

\* the order in which Kruskal's algorithm of nx.maximum_spanning_tree takes the edges
EdgeOrder(g, es) == SortDescending(g, es)

\* a Kruskal that takes every edge, joining or not
KruskalNoUnionFind(es, k, root, acc) == es

\* Kruskal over the sorted edges with a union-find (root[n] = set representative)
RECURSIVE Kruskal(_, _, _, _)
Kruskal(es, k, root, acc) ==
    IF k > Len(es) THEN acc
    ELSE LET u == es[k][1]
             v == es[k][2]
             join == root[u] # root[v]
             root2 == IF join
                      THEN [n \in DOMAIN root |->
                              IF root[n] = root[v] THEN root[u] ELSE root[n]]
                      ELSE root
             acc2 == IF join THEN Append(acc, es[k]) ELSE acc
         IN  IF Strict(<<root2, acc2>>) THEN Kruskal(es, k + 1, root2, acc2) ELSE acc

\* nx.maximum_spanning_tree(G): keeps every node of G; never raises on a
\* disconnected graph (it returns a spanning forest). edges lists the tree's
\* edges in the order Kruskal's algorithm takes them
maximum_spanning_tree(g) ==
    LET ns == {g.nodes[k] : k \in 1..Len(g.nodes)}
    IN  [nodes |-> g.nodes,
         edges |-> Kruskal(EdgeOrder(g, GraphEdges(g)), 1, [n \in ns |-> n], <<>>)]

\* n_nodes without the decrement of line 121
LoopBoundWholeMatrix(M) == Cardinality(DOMAIN M)

\* n_nodes = W.shape[0]; n_nodes -= 1
LoopBound(M) == Cardinality(DOMAIN M) - 1

get_graph(M) == BuildGraph(M, LoopBound(M), 0, EmptyGraph)

get_mst(M) == maximum_spanning_tree(get_graph(M))

\* ------------------------------------------ generate_unweighted_adj_matrix
Zeros(n) == [u \in 0..(n - 1) |-> [v \in 0..(n - 1) |-> 0]]

NoMatrix == Zeros(0)
NoOut == [err |-> "none", adj |-> NoMatrix]

\* a loop that sets adj_matrix[u, v] only
PopulateOneWay(es, k, n, a) ==
    IF \E m \in 1..Len(es) : es[m][1] >= n \/ es[m][2] >= n
    THEN [err |-> "IndexError", adj |-> NoMatrix]
    ELSE [err |-> "none",
          adj |-> [u \in 0..(n - 1) |-> [v \in 0..(n - 1) |->
                     IF \E m \in 1..Len(es) : es[m] = <<u, v>> THEN 1 ELSE 0]]]

\* the loop over the columns of edges: an endpoint outside 0..n-1 raises
\* IndexError (node ids are never negative, so no index wraps around)
RECURSIVE Populate(_, _, _, _)
Populate(es, k, n, a) ==
    IF k > Len(es) THEN [err |-> "none", adj |-> a]
    ELSE LET u == es[k][1]
             v == es[k][2]
         IN  IF u >= n \/ v >= n
             THEN [err |-> "IndexError", adj |-> NoMatrix]
             ELSE LET a2 == [[a EXCEPT ![u][v] = 1] EXCEPT ![v][u] = 1]
                  IN  IF Strict(a2) THEN Populate(es, k + 1, n, a2) ELSE NoOut

\* edges = np.array(list(mst.edges)).T has shape (0,) when the tree has no
\* edge, and edges.shape[1] then raises IndexError
generate_unweighted_adj_matrix(t, n) ==
    IF t.edges = <<>>
    THEN [err |-> "IndexError", adj |-> NoMatrix]
    ELSE Populate(t.edges, 1, n, Zeros(n))

\* ------------------------------------------------- compute_log_likelihood
\* integer codes a sequence may hold: the four bases 0..3 of the docstring
\* are represented by 0 and 3, the codes outside them by -5, -1 and 4
SymbolCodes == {-5, -1, 0, 3, 4}

BaseCodes == 0..3

\* numpy indexing of an axis of size 4: -4..3 are accepted and a negative
\* index counts from the end; anything else raises IndexError
ValidIndex(i) == -4 <= i /\ i <= 3
Index(i) == IF i < 0 THEN i + 4 ELSE i

\* S_ij after the first n iterations of: for i, j in zip(seq1, seq2): S_ij[i, j] += 1
Counts(seq1, seq2, n) ==
    [a \in BaseCodes |-> [b \in BaseCodes |->
        Cardinality({k \in 1..n : Index(seq1[k]) = a /\ Index(seq2[k]) = b})]]

NoCall == [err |-> "none", counted |-> 0, calls |-> 0, val |-> 0,
           S |-> [a \in BaseCodes |-> [b \in BaseCodes |-> 0]]]

\* model.optimize_t(S_ij), model.trans_matrix(t_opt) and the sum of
\* log(P_t[i, j]) over the sites: under Jukes-Cantor the optimised
\* log-likelihood is 0 when no site differs and falls with every site that
\* does; it is represented by minus the number of differing sites
LogLikelihood(S) ==
    0 - (S[0][1] + S[0][2] + S[0][3] + S[1][0] + S[1][2] + S[1][3]
         + S[2][0] + S[2][1] + S[2][3] + S[3][0] + S[3][1] + S[3][2])

\* the body of compute_log_likelihood after the length check, over the first
\* n sites of both sequences
Likelihood(seq1, seq2, n) ==
    LET bad == {k \in 1..n : ~ValidIndex(seq1[k]) \/ ~ValidIndex(seq2[k])}
    IN  IF bad # {}
        THEN LET first == CHOOSE k \in bad : \A m \in bad : k <= m
             IN  [err |-> "IndexError", counted |-> first - 1, calls |-> 0,
                  val |-> 0, S |-> Counts(seq1, seq2, first - 1)]
        ELSE [err |-> "none", counted |-> n, calls |-> 2,
              val |-> LogLikelihood(Counts(seq1, seq2, n)),
              S |-> Counts(seq1, seq2, n)]

\* no length check: zip stops at the shorter sequence
compute_log_likelihood_zip(seq1, seq2) ==
    Likelihood(seq1, seq2, Min(Len(seq1), Len(seq2)))

compute_log_likelihood(seq1, seq2) ==
    IF Len(seq1) # Len(seq2)
    THEN [NoCall EXCEPT !.err = "ValueError"]
    ELSE Likelihood(seq1, seq2, Len(seq1))

\* ---------------------------------------- build_weighted_adjacency_matrix
\* np.exp on the range -MaxLen..0 of the log-likelihoods: positive and
\* strictly increasing, represented by the shift that makes every value positive
Exp(x) == x + MaxLen + 1

\* the k-th ordered pair <<i, j>>, i # j, of range(n) x range(n), row-major
OrderedPair(n, k) ==
    LET i == (k - 1) \div (n - 1)
        r == (k - 1) % (n - 1)
    IN  <<i, IF r < i THEN r ELSE r + 1>>

build_weighted_adjacency_matrix(ss) ==
    LET n == Len(ss)
        total == n * (n - 1)
        call(k) == compute_log_likelihood(ss[OrderedPair(n, k)[1] + 1],
                                          ss[OrderedPair(n, k)[2] + 1])
        failing == {k \in 1..total : call(k).err # "none"}
    IN  IF failing # {}
        THEN LET first == CHOOSE k \in failing : \A m \in failing : k <= m
             IN  [err |-> call(first).err, matrix |-> NoMatrix,
                  pairs |-> first - 1, last |-> call(first)]
        ELSE [err |-> "none",
              matrix |-> [i \in 0..(n - 1) |-> [j \in 0..(n - 1) |->
                            IF i # j
                            THEN Exp(compute_log_likelihood(ss[i + 1], ss[j + 1]).val)
                            ELSE Exp(0)]],
              pairs |-> total,
              last |-> IF total = 0 THEN NoCall ELSE call(total)]

\* ------------------------------------------------------------------ state
VARIABLES
    pc,             \* position of the run
    err,            \* exception the last operation raised, "none" if none
    W,              \* weighted_adj_matrix
    G,              \* the nx.Graph get_mst builds
    mst,            \* the tree get_mst returns
    num_nodes,      \* argument of generate_unweighted_adj_matrix
    out,            \* adj_matrix
    seqs,           \* the sequences the likelihoods are computed from
    lik,            \* the last call of compute_log_likelihood
    pairs,          \* calls of compute_log_likelihood that returned
    n_leaves,       \* argument of generate_data
    n_seqs,         \* number of sequences simulate_seq yields
    node_features,  \* node_features of generate_data
    warned          \* generate_data printed "Inconsistant shape ..."

vars == <<pc, err, W, G, mst, num_nodes, out, seqs, lik, pairs,
          n_leaves, n_seqs, node_features, warned>>

treeVars == <<G, mst, num_nodes, out>>
likVars == <<seqs, lik, pairs>>
dataVars == <<n_leaves, n_seqs, node_features, warned>>

NoTree == [nodes |-> <<>>, edges |-> <<>>]

Dim(M) == Cardinality(DOMAIN M)

InitTree == G = EmptyGraph /\ mst = NoTree /\ num_nodes = 0 /\ out = NoMatrix
InitLikVars == seqs = <<>> /\ lik = NoCall /\ pairs = 0
InitDataVars == n_leaves = 0 /\ n_seqs = 0 /\ node_features = <<>> /\ warned = FALSE

\* ------------------------------- get_mst and generate_unweighted_adj_matrix
\* an N x N matrix: upper triangle up, lower triangle its mirror image except
\* for M[1][0] = low, d on the diagonal, l in the last row and column
Matrix(N, up, low, d, l) ==
    [i \in 0..(N - 1) |-> [j \in 0..(N - 1) |->
        IF i = N - 1 \/ j = N - 1 THEN l
        ELSE IF i = j THEN d
        ELSE IF i < j THEN up[<<i, j>>]
        ELSE IF <<j, i>> = <<0, 1>> THEN low
        ELSE up[<<j, i>>]]]

Init ==
    /\ pc = "start"
    /\ err = "none"
    /\ \E N \in 1..MaxN :
         \E up \in [Pairs(N - 1) -> Weights] :
           \E low \in Weights, d \in {NegInf, 1}, l \in {NegInf, 1} :
               W = Matrix(N, up, low, d, l)
    /\ InitTree
    /\ InitLikVars
    /\ InitDataVars

\* mst = get_mst(weighted_adj_matrix); nothing in get_mst raises
GetMst ==
    /\ pc = "start"
    /\ G' = get_graph(W)
    /\ mst' = get_mst(W)
    /\ err' = "none"
    /\ pc' = "mst"
    /\ UNCHANGED <<W, num_nodes, out, likVars, dataVars>>

\* adj_matrix = generate_unweighted_adj_matrix(mst, num_nodes), for num_nodes
\* from one short of the node range 0..N-2 of the tree up to N + 1
GenerateUnweightedAdjMatrix ==
    /\ pc = "mst"
    /\ \E n \in 0..(MaxN + 1) :
         /\ n >= Dim(W) - 2
         /\ n <= Dim(W) + 1
         /\ num_nodes' = n
         /\ LET r == generate_unweighted_adj_matrix(mst, n)
            IN  /\ out' = r.adj
                /\ err' = r.err
    /\ pc' = "adj"
    /\ UNCHANGED <<W, G, mst, likVars, dataVars>>

Next == GetMst \/ GenerateUnweightedAdjMatrix

Spec == Init /\ [][Next]_vars

\* ------------- compute_log_likelihood and build_weighted_adjacency_matrix
\* the sequences of at most MaxLen codes
CodeSeqs == UNION {[1..n -> SymbolCodes] : n \in 0..MaxLen}

\* the sequences of at most MaxLen sites that repeat one code
Homopolymers(codes) == {[k \in 1..n |-> c] : n \in 0..MaxLen, c \in codes}

Batches == UNION {[1..n -> Homopolymers(SymbolCodes)] : n \in 0..MaxSeqs}

InitLik ==
    /\ pc = "start"
    /\ err = "none"
    /\ W = NoMatrix
    /\ InitTree
    /\ InitLikVars
    /\ InitDataVars

ComputeLogLikelihood ==
    /\ pc = "start"
    /\ \E seq1 \in CodeSeqs, seq2 \in CodeSeqs :
         /\ seqs' = <<seq1, seq2>>
         /\ lik' = compute_log_likelihood(seq1, seq2)
         /\ err' = compute_log_likelihood(seq1, seq2).err
         /\ pairs' = IF compute_log_likelihood(seq1, seq2).err = "none" THEN 1 ELSE 0
    /\ pc' = "lik"
    /\ UNCHANGED <<W, treeVars, dataVars>>

BuildWeightedAdjacencyMatrix ==
    /\ pc = "start"
    /\ \E ss \in Batches :
         LET r == build_weighted_adjacency_matrix(ss)
         IN  /\ seqs' = ss
             /\ W' = r.matrix
             /\ err' = r.err
             /\ lik' = r.last
             /\ pairs' = r.pairs
    /\ pc' = "built"
    /\ UNCHANGED <<treeVars, dataVars>>

NextLik == ComputeLogLikelihood \/ BuildWeightedAdjacencyMatrix

SpecLik == InitLik /\ [][NextLik]_vars

\* ------------------------------------------------------------ generate_data
\* simulate_seq, one_hot and the argmax of generate_node_features: n
\* sequences of equal length over the base codes
Simulated(n) == [1..n -> {[k \in 1..MaxLen |-> c] : c \in {0, 3}}]

\* the number of sequences simulate_seq yields for a tree of n leaves: one
\* per leaf, or one per node of the tree of 2 * n - 1 nodes
SequenceCounts(n) == {n, 2 * n - 1}

\* generate_data(n_leaves)
InitData ==
    /\ pc = "start"
    /\ err = "none"
    /\ W = NoMatrix
    /\ InitTree
    /\ InitLikVars
    /\ n_leaves \in 1..MaxLeaves
    /\ n_seqs \in SequenceCounts(n_leaves)
    /\ node_features = <<>>
    /\ warned = FALSE

\* node_features = generate_node_features(n_leaves, alpha)
DataNodeFeatures ==
    /\ pc = "start"
    /\ node_features' \in Simulated(n_seqs)
    /\ pc' = "features"
    /\ UNCHANGED <<err, W, treeVars, likVars, n_leaves, n_seqs, warned>>

\* weighted_adj_matrix = generate_weighted_adj_matrix(n_leaves, alpha), which
\* calls generate_node_features again: a second tree and a second simulation
DataWeightedAdjMatrix ==
    /\ pc = "features"
    /\ \E encoded_seq \in Simulated(n_seqs) :
         LET r == build_weighted_adjacency_matrix(encoded_seq)
         IN  /\ seqs' = encoded_seq
             /\ W' = r.matrix
             /\ err' = r.err
             /\ lik' = r.last
             /\ pairs' = r.pairs
             /\ pc' = IF r.err = "none" THEN "weights" ELSE "raised"
    /\ UNCHANGED <<treeVars, dataVars>>

\* mst = get_mst(weighted_adj_matrix)
DataGetMst ==
    /\ pc = "weights"
    /\ G' = get_graph(W)
    /\ mst' = get_mst(W)
    /\ pc' = "tree"
    /\ UNCHANGED <<err, W, num_nodes, out, likVars, dataVars>>

\* adj_matrix = generate_unweighted_adj_matrix(mst, num_nodes=n_leaves); an
\* exception leaves generate_data
DataAdjMatrix ==
    /\ pc = "tree"
    /\ num_nodes' = n_leaves
    /\ LET r == generate_unweighted_adj_matrix(mst, n_leaves)
       IN  /\ out' = r.adj
           /\ err' = r.err
           /\ pc' = IF r.err = "none" THEN "matrix" ELSE "raised"
    /\ UNCHANGED <<W, G, mst, likVars, dataVars>>

\* the two shape checks (adj_matrix is square by construction) and the return
DataReturn ==
    /\ pc = "matrix"
    /\ warned' = (Len(node_features) # Dim(out))
    /\ pc' = "returned"
    /\ UNCHANGED <<err, W, treeVars, likVars, n_leaves, n_seqs, node_features>>

NextData ==
    \/ DataNodeFeatures
    \/ DataWeightedAdjMatrix
    \/ DataGetMst
    \/ DataAdjMatrix
    \/ DataReturn

SpecData == InitData /\ [][NextData]_vars

\* ----------------------------------------------------- graphs, by definition
\* the nodes reachable from the set S along the edges E (pairs <<u, v>>)
RECURSIVE Reach(_, _)
Reach(E, S) ==
    LET T == S \cup {e[2] : e \in {x \in E : x[1] \in S}}
               \cup {e[1] : e \in {x \in E : x[2] \in S}}
    IN  IF T = S THEN S ELSE Reach(E, T)

NodeSet(g) == {g.nodes[k] : k \in 1..Len(g.nodes)}

Components(g) == {Reach(DOMAIN g.w, {n}) : n \in NodeSet(g)}

IsConnected(g) == Cardinality(Components(g)) = 1

TreeKeys(t) == {Key(t.edges[k][1], t.edges[k][2]) : k \in 1..Len(t.edges)}

IsSpanningTree(T, n) ==
    /\ T \subseteq Pairs(n)
    /\ Cardinality(T) = n - 1
    /\ Reach(T, {0}) = 0..(n - 1)

SpanningTrees(n) == {T \in SUBSET Pairs(n) : IsSpanningTree(T, n)}

RECURSIVE TotalWeight(_, _)
TotalWeight(g, T) ==
    IF T = {} THEN 0
    ELSE LET e == CHOOSE x \in T : TRUE
         IN  g.w[e] + TotalWeight(g, T \ {e})

FiniteMatrix(M) == \A i \in DOMAIN M : \A j \in DOMAIN M : M[i][j] # NegInf

NonZeros(a) == {p \in (DOMAIN a) \X (DOMAIN a) : a[p[1]][p[2]] # 0}

\* ------------------------------------------------------------------ claims

\* C1: for an N x N matrix of finite weights, N >= 3, the tree get_mst returns
\* is a spanning tree of the complete graph on 0..N-2, and no spanning tree of
\* that graph (all of them enumerated) has a larger total edge weight.
C1_MaximumSpanningTree ==
    (pc = "mst" /\ Dim(W) >= 3 /\ FiniteMatrix(W)) =>
        /\ Len(mst.edges) = Dim(W) - 2
        /\ IsSpanningTree(TreeKeys(mst), Dim(W) - 1)
        /\ \A T \in SpanningTrees(Dim(W) - 1) :
               TotalWeight(G, T) <= TotalWeight(G, TreeKeys(mst))

\* a finite 4 x 4 matrix whose graph has a spanning tree lighter than the one returned
C1_Witness ==
    /\ pc = "mst"
    /\ Dim(W) = 4
    /\ FiniteMatrix(W)
    /\ \E T \in SpanningTrees(3) : TotalWeight(G, T) < TotalWeight(G, TreeKeys(mst))

\* C2 as stated: (nodes - 1) edges when the graph is connected, and a
\* DisconnectedGraph error with no tree when it is not.
C2_DisconnectedGraphRaises ==
    (pc = "mst" /\ G.nodes # <<>>) =>
        IF IsConnected(G)
        THEN err = "none" /\ Len(mst.edges) = Len(G.nodes) - 1
        ELSE err = "DisconnectedGraph" /\ mst = NoTree

\* C2 amended: get_mst never raises; the result has (nodes - components)
\* edges, all of them edges of the graph, and connects exactly the nodes the
\* graph connects: a spanning tree with (nodes - 1) edges when the graph is
\* connected, a spanning forest when it is not.
C2_SpanningForest ==
    pc = "mst" =>
        /\ err = "none"
        /\ mst.nodes = G.nodes
        /\ Len(mst.edges) = Len(G.nodes) - Cardinality(Components(G))
        /\ TreeKeys(mst) \subseteq DOMAIN G.w
        /\ \A n \in NodeSet(G) : Reach(TreeKeys(mst), {n}) = Reach(DOMAIN G.w, {n})
        /\ IsConnected(G) => Len(mst.edges) = Len(G.nodes) - 1

\* a graph in two or more pieces, one of them with an edge: a forest comes back
C2_Witness ==
    /\ pc = "mst"
    /\ err = "none"
    /\ Cardinality(Components(G)) >= 2
    /\ Len(mst.edges) >= 1

\* C3 as stated: for every edge list, the empty one included, and every
\* num_nodes above all endpoints, the result is a num_nodes x num_nodes 0/1
\* matrix with adj[u][v] = 1 exactly when (u,v) or (v,u) is an edge.
C3_AdjacencyOfEveryEdgeList ==
    (pc = "adj" /\ \A k \in 1..Len(mst.edges) :
                      mst.edges[k][1] < num_nodes /\ mst.edges[k][2] < num_nodes) =>
        /\ err = "none"
        /\ DOMAIN out = 0..(num_nodes - 1)
        /\ \A u \in 0..(num_nodes - 1) :
             /\ DOMAIN out[u] = 0..(num_nodes - 1)
             /\ \A v \in 0..(num_nodes - 1) :
                  out[u][v] = IF u # v /\ Key(u, v) \in TreeKeys(mst) THEN 1 ELSE 0

\* C4: for a finite N x N matrix, N >= 3, get_mst followed by
\* generate_unweighted_adj_matrix with num_nodes = N gives a symmetric matrix
\* with exactly 2 * (N - 2) non-zero entries, none of them on the diagonal.
C4_SymmetricTwiceEdges ==
    (pc = "adj" /\ Dim(W) >= 3 /\ FiniteMatrix(W) /\ num_nodes = Dim(W)) =>
        /\ err = "none"
        /\ DOMAIN out = 0..(num_nodes - 1)
        /\ \A u \in DOMAIN out : \A v \in DOMAIN out : out[u][v] = out[v][u]
        /\ \A u \in DOMAIN out : out[u][u] = 0
        /\ Cardinality(NonZeros(out)) = 2 * (Dim(W) - 2)

C4_Witness ==
    /\ pc = "adj"
    /\ Dim(W) = 4
    /\ FiniteMatrix(W)
    /\ num_nodes = 4
    /\ Cardinality(NonZeros(out)) = 4

C9_EdgesOfUpperTriangle ==
    pc = "mst" =>
        /\ \A p \in Pairs(Dim(W) - 1) :
             IF W[p[1]][p[2]] = NegInf
             THEN ~HasEdge(G, p[1], p[2])
             ELSE HasEdge(G, p[1], p[2]) /\ G.w[p] = W[p[1]][p[2]]
        /\ \A i \in 0..(Dim(W) - 2) : ~HasEdge(G, i, i)

\* the ordered pairs k of the batch whose two sequences differ in length
Mismatching(ss) ==
    {k \in 1..(Len(ss) * (Len(ss) - 1)) :
        Len(ss[OrderedPair(Len(ss), k)[1] + 1]) # Len(ss[OrderedPair(Len(ss), k)[2] + 1])}

\* the sequence holds only codes numpy accepts as an index of S_ij
Indexable(seq) == \A k \in 1..Len(seq) : ValidIndex(seq[k])

\* C6: compute_log_likelihood raises the length error when the lengths
\* differ, with no site counted and the model not called; and
\* build_weighted_adjacency_matrix returns no matrix for a batch with a
\* mismatching ordered pair: it stops at the first such pair with that error,
\* the calls before it having returned (unless one of them raised first).
C6_LengthMismatchAborts ==
    /\ (pc = "lik" /\ Len(seqs[1]) # Len(seqs[2])) =>
           err = "ValueError" /\ lik.counted = 0 /\ lik.calls = 0 /\ pairs = 0
    /\ (pc = "built" /\ Mismatching(seqs) # {}) =>
           LET first == CHOOSE k \in Mismatching(seqs) :
                            \A m \in Mismatching(seqs) : k <= m
           IN  /\ err # "none"
               /\ W = NoMatrix
               /\ pairs < first
               /\ pairs = first - 1 =>
                      err = "ValueError" /\ lik.counted = 0 /\ lik.calls = 0
               /\ (\A k \in 1..Len(seqs) : Indexable(seqs[k])) => pairs = first - 1

\* three sequences, the third of another length: the call for (0,1) returned
\* and the one for (0,2) raised
C6_Witness ==
    /\ pc = "built"
    /\ Len(seqs) = 3
    /\ Len(seqs[1]) = Len(seqs[2])
    /\ Len(seqs[3]) # Len(seqs[1])
    /\ Len(seqs[1]) >= 1
    /\ Len(seqs[3]) >= 1
    /\ err = "ValueError"
    /\ pairs = 1

\* C7 as stated: a code outside 0..3 in either sequence makes
\* compute_log_likelihood fail, and no site holding such a code is counted
\* into S_ij.
C7_InvalidSymbolRejected ==
    (pc = "lik" /\ \E s \in 1..2 : \E k \in 1..Len(seqs[s]) : seqs[s][k] \notin BaseCodes) =>
        /\ err # "none"
        /\ \A k \in 1..lik.counted :
               seqs[1][k] \in BaseCodes /\ seqs[2][k] \in BaseCodes

\* C8 as stated: when the number of sequences differs from n_leaves,
\* generate_data prints the warning and returns; a tree node outside the
\* adjacency range raises nothing.
C8_ShapeMismatchNonFatal ==
    (pc \in {"raised", "returned"} /\ n_seqs # n_leaves) =>
        pc = "returned" /\ warned /\ err = "none"

\* C10 as stated: the weight matrix, hence the adjacency matrix, is computed
\* from the sequences returned as node_features.
C10_AdjacencyFromReturnedFeatures ==
    pc \in {"weights", "tree", "matrix", "raised", "returned"} => seqs = node_features

====
